---- MODULE Spec2Model ----
(***************************************************************************)
(* A model of the lexer (src/src/scanner.rs) and of the recursive-descent  *)
(* parser (src/src/parser.rs) of crafting-interpreters-rs.                  *)
(*                                                                         *)
(* Characters are one-character strings, a source is a sequence of them.   *)
(* Rust indexes from 0 and TLA+ sequences from 1: CharAt and Slice do the   *)
(* conversion, and report an index outside the vector instead of reading.  *)
(***************************************************************************)
EXTENDS Integers, Sequences, FiniteSets, TLC

VARIABLES
    scanner,    \* the Scanner struct: source, tokens, start, current, line
    pc,         \* position of the scan: loop, scan_token, comment, string, ...
    result,     \* what scan_tokens returned: Ok(tokens), Err(message) or a panic
    spans,      \* history: the source range [start, current) of every pushed token
    parser,     \* the Parser struct: tokens, current
    stack,      \* the call stack of the recursive descent, innermost frame last
    ret,        \* the value returned by the call that last completed
    ppc,        \* position of Parser::parse: idle, run, synchronize, done, fault
    presult,    \* what Parser::parse returned: Ok(expr) or Err(message)
    repl        \* run_prompt: its position at, the lines left on stdin, stdout

scan_vars == <<scanner, pc, result, spans>>
parse_vars == <<parser, stack, ret, ppc, presult>>
vars == <<scanner, pc, result, spans, parser, stack, ret, ppc, presult, repl>>

-----------------------------------------------------------------------------
(* Bounds of the model.                                                    *)

\* longest source drawn from the mixed alphabet
MaxLen == 4
\* longest source drawn from the eleven punctuation characters
MaxPunctLen == 3
\* longest source drawn from the four operator characters ! = < >
MaxOpLen == 5
\* longest source of the runs checked for termination
MaxFairLen == 5
\* most tokens before the Eof in a token sequence given to the parser
MaxTokens == 3
\* most operators in a chain operand operator operand ... given to the parser
MaxChainOps == 3
\* most prefix operators before a primary
MaxPrefixOps == 3
\* longest source given to the scanner of scanner_refactor.rs
MaxRefactorLen == 3
\* most lines on the standard input of run_prompt
MaxLines == 2
\* longest source drawn from the quote, the backslash and a letter
MaxEscapeLen == 4
\* longest source drawn from the letters of if, or, for, a digit and a space
MaxWordLen == 4
\* longest source drawn from two digits and the dot
MaxNumberLen == 5

SeqsUpTo(A, n) == UNION {[1..k -> A] : k \in 0..n}

\* the value peek and peek_next give at the end of the source ('\0')
NUL == "NUL"
\* the outcome of indexing a vector outside its length (a Rust panic)
OOB == "OOB"

QUOTE == "\""
NEWLINE == "\n"

PunctChars == {"(", ")", "{", "}", ",", ".", "-", "+", ";", "/", "*"}
OpChars == {"!", "=", "<", ">"}
MixedChars == {"(", "/", NEWLINE, QUOTE, "1", ".", "a", " ", "_"}
FairChars == {QUOTE, NEWLINE, "/", "1", "a"}
BACKSLASH == "\\"
EscapeChars == {QUOTE, BACKSLASH, "a"}
WordChars == {"i", "f", "o", "r", "1", " "}
NumberChars == {"1", "5", "."}

\* the inputs of the tests of scanner.rs and of the examples of the documentation
EscapedQuoteSource == <<QUOTE, "a", BACKSLASH, QUOTE, "b", QUOTE>>
VarStatementSource ==
    <<"v", "a", "r", " ", "f", "i", "v", "e", " ", "=", " ", "5", ";">>
ExampleSources ==
    { EscapedQuoteSource, VarStatementSource,
      <<"v", "a", "r", "i", "a", "b", "l", "e">>,
      <<"v", "a", "r", "1">>,
      <<"i", "f", "f", "y">>,
      <<"I", "f">>,
      <<"1", ".", "2", ".", "3">>,
      <<"0", ".", "1", "4", "5">>,
      <<"5">>,
      <<"(", "\t", "\r", ")", " ", "/", "/", "a", NEWLINE, "1">> }

-----------------------------------------------------------------------------
(* Character classes.                                                      *)

Digits == {"0", "1", "2", "3", "4", "5", "6", "7", "8", "9"}
Letters ==
    {"a", "b", "c", "d", "e", "f", "g", "h", "i", "j", "k", "l", "m",
     "n", "o", "p", "q", "r", "s", "t", "u", "v", "w", "x", "y", "z",
     "A", "B", "C", "D", "E", "F", "G", "H", "I", "J", "K", "L", "M",
     "N", "O", "P", "Q", "R", "S", "T", "U", "V", "W", "X", "Y", "Z"}

is_digit(c) == c \in Digits
\* is_alpha as in the book, with the underscore
is_alpha_underscore(c) == c \in Letters \cup {"_"}

is_alpha(c) == c \in Letters
is_alpha_numeric(c) == is_digit(c) \/ is_alpha(c)

DigitVal(c) ==
    CASE c = "0" -> 0 [] c = "1" -> 1 [] c = "2" -> 2 [] c = "3" -> 3
      [] c = "4" -> 4 [] c = "5" -> 5 [] c = "6" -> 6 [] c = "7" -> 7
      [] c = "8" -> 8 [] c = "9" -> 9

-----------------------------------------------------------------------------
(* Vec<char> indexing, 0-based as in the source.                           *)

InRange(src, i) == 0 <= i /\ i < Len(src)
CharAt(src, i) == IF InRange(src, i) THEN src[i + 1] ELSE OOB
\* src[a..b]: panics unless a <= b <= len
SliceOk(src, a, b) == 0 <= a /\ a <= b /\ b <= Len(src)
Slice(src, a, b) == IF SliceOk(src, a, b) THEN SubSeq(src, a + 1, b) ELSE <<>>

-----------------------------------------------------------------------------
(* Tokens and literals (src/src/token.rs).                                 *)

None == [kind |-> "None"]
LiteralStr(text) == [kind |-> "Str", value |-> text]
LiteralIdentifier(text) == [kind |-> "Identifier", value |-> text]
LiteralNumber(v) == [kind |-> "Number", value |-> v]

Token(ty, lexeme, literal, line) ==
    [ty |-> ty, lexeme |-> lexeme, literal |-> literal, line |-> line]

\* the kinds of enum TokenType
TokenType ==
    {"LParan", "RParan", "LBrace", "RBrace", "Comma", "Dot", "Minus", "Plus",
     "SemiColon", "Slash", "Star", "Bang", "BangEqual", "Equal", "EqualEqual",
     "Greater", "GreaterEqual", "Less", "LessEqual", "Identifier", "String",
     "Number", "And", "Or", "If", "Else", "True", "False", "For", "While", "Nil",
     "Fun", "Return", "Class", "Super", "This", "Var", "Print", "Eof"}

match_keywords(literal) ==
    CASE literal = <<"a", "n", "d">> -> "And"
      [] literal = <<"c", "l", "a", "s", "s">> -> "Class"
      [] literal = <<"e", "l", "s", "e">> -> "Else"
      [] literal = <<"f", "a", "l", "s", "e">> -> "False"
      [] literal = <<"f", "o", "r">> -> "For"
      [] literal = <<"f", "u", "n">> -> "Fun"
      [] literal = <<"i", "f">> -> "If"
      [] literal = <<"n", "i", "l">> -> "Nil"
      [] literal = <<"o", "r">> -> "Or"
      [] literal = <<"p", "r", "i", "n", "t">> -> "Print"
      [] literal = <<"r", "e", "t", "u", "r", "n">> -> "Return"
      [] literal = <<"s", "u", "p", "e", "r">> -> "Super"
      [] literal = <<"t", "h", "i", "s">> -> "This"
      [] literal = <<"t", "r", "u", "e">> -> "True"
      [] literal = <<"v", "a", "r">> -> "Var"
      [] literal = <<"w", "h", "i", "l", "e">> -> "While"
      [] OTHER -> "NoKeyword"

-----------------------------------------------------------------------------
(* Scanner helpers (src/src/scanner.rs). s is the Scanner struct.          *)

ScannerNew(input) ==
    [source |-> input, tokens |-> <<>>, start |-> 0, current |-> 0, line |-> 1]

\* is_at_end comparing with > instead of >=
is_at_end_past(s) == s.current > Len(s.source)

is_at_end(s) == s.current >= Len(s.source)

peek(s) == IF is_at_end(s) THEN NUL ELSE CharAt(s.source, s.current)

\* peek_next reading the character at current instead of the one after it
peek_next_current(s) ==
    IF s.current + 1 >= Len(s.source) THEN NUL ELSE CharAt(s.source, s.current)

peek_next(s) ==
    IF s.current + 1 >= Len(s.source) THEN NUL ELSE CharAt(s.source, s.current + 1)

\* advance: the character read (OOB when the index is outside the source)
advance_char(s) == CharAt(s.source, s.current)
\* advance without the increment of current
advance_stuck(s) == s

advance(s) == [s EXCEPT !.current = @ + 1]

\* matches reporting the match without consuming the character
matches_unconsumed(s, c) ==
    IF is_at_end(s) THEN [ok |-> FALSE, s |-> s]
    ELSE IF CharAt(s.source, s.current) # c THEN [ok |-> FALSE, s |-> s]
    ELSE [ok |-> TRUE, s |-> s]

\* matches: ok tells whether c was consumed, s is the scanner afterwards
matches(s, c) ==
    IF is_at_end(s) THEN [ok |-> FALSE, s |-> s]
    ELSE IF CharAt(s.source, s.current) # c THEN [ok |-> FALSE, s |-> s]
    ELSE [ok |-> TRUE, s |-> [s EXCEPT !.current = @ + 1]]

add_token(s, ty) ==
    [s EXCEPT !.tokens =
        Append(@, Token(ty, Slice(s.source, s.start, s.current), None, s.line))]

\* add_literal_token pushing the token the way add_token does
add_literal_token_bare(s, ty, literal) ==
    [s EXCEPT !.tokens =
        Append(@, Token(ty, Slice(s.source, s.start, s.current), None, s.line))]

add_literal_token(s, ty, literal) ==
    [s EXCEPT !.tokens =
        Append(@, Token(ty, Slice(s.source, s.start, s.current), literal, s.line))]

\* scan_token on '\n' without the line count
newline_uncounted(s) == s

\* scan_token on '\n': the line counter moves on
newline(s) == [s EXCEPT !.line = @ + 1]

\* a comment loop that also consumes the newline ending the comment
comment_continues_past_newline(s) ==
    /\ ~is_at_end(s)
    /\ s.current = s.start + 2 \/ CharAt(s.source, s.current - 1) # NEWLINE

\* the condition of the comment loop of scan_token
comment_continues(s) == peek(s) # NEWLINE /\ ~is_at_end(s)

\* the loop of Scanner::string without its end-of-input test
string_continues_unbounded(s) == peek(s) # QUOTE

\* the condition of the loop of Scanner::string
string_continues(s) == peek(s) # QUOTE /\ ~is_at_end(s)

\* the loop of Scanner::string without its line count
string_line_uncounted(s) == s

\* the body of the loop of Scanner::string before its advance
string_line(s) == IF peek(s) = NEWLINE THEN [s EXCEPT !.line = @ + 1] ELSE s

\* the loop of Scanner::identifier stopping at a digit
identifier_continues_alpha(s) == is_alpha(peek(s))

\* the condition of the loop of Scanner::identifier
identifier_continues(s) == is_alpha_numeric(peek(s))

\* the loop of scan_tokens without its assignment to start
begin_token_unset(s) == s

\* the loop of scan_tokens: the next token starts at the current character
begin_token(s) == [s EXCEPT !.start = s.current]

\* the Eof pushed the way add_token pushes, with the lexeme source[start..current)
EofToken_sliced(s) == Token("Eof", Slice(s.source, s.start, s.current), None, s.line)

\* the Eof token scan_tokens pushes after its loop
EofToken(s) == Token("Eof", <<>>, None, s.line)

\* SingleKind with the arm of '{' copied from the arm of '('
SingleKind_brace_as_paren(c) ==
    CASE c = "{" -> "LParan" [] c = "}" -> "RBrace"
      [] c = "(" -> "LParan" [] c = ")" -> "RParan"
      [] c = "," -> "Comma" [] c = "." -> "Dot"
      [] c = "-" -> "Minus" [] c = "+" -> "Plus"
      [] c = ";" -> "SemiColon" [] c = "*" -> "Star"

\* the kind scan_token gives a character that is a token on its own
SingleKind(c) ==
    CASE c = "{" -> "LBrace" [] c = "}" -> "RBrace"
      [] c = "(" -> "LParan" [] c = ")" -> "RParan"
      [] c = "," -> "Comma" [] c = "." -> "Dot"
      [] c = "-" -> "Minus" [] c = "+" -> "Plus"
      [] c = ";" -> "SemiColon" [] c = "*" -> "Star"

SingleChars == {"{", "}", "(", ")", ",", ".", "-", "+", ";", "*"}

\* the kinds of ! = > < alone and followed by =
OneCharKind(c) ==
    CASE c = "!" -> "Bang" [] c = "=" -> "Equal"
      [] c = ">" -> "Greater" [] c = "<" -> "Less"

TwoCharKind(c) ==
    CASE c = "!" -> "BangEqual" [] c = "=" -> "EqualEqual"
      [] c = ">" -> "GreaterEqual" [] c = "<" -> "LessEqual"

Whitespace == {" ", "\t", "\r"}

\* str::parse::<f64> on digits[.digits]: the decimal value m / 10^e, reduced
RECURSIVE DigitsValue(_)
DigitsValue(ds) ==
    IF ds = <<>> THEN 0
    ELSE 10 * DigitsValue(SubSeq(ds, 1, Len(ds) - 1)) + DigitVal(ds[Len(ds)])

RECURSIVE Reduce(_, _)
Reduce(m, e) == IF e > 0 /\ m % 10 = 0 THEN Reduce(m \div 10, e - 1) ELSE [m |-> m, e |-> e]

parse_f64(text) ==
    LET dots == {i \in 1..Len(text) : text[i] = "."}
    IN  IF dots = {} THEN Reduce(DigitsValue(text), 0)
        ELSE LET d == CHOOSE i \in dots : TRUE
                 frac == SubSeq(text, d + 1, Len(text))
             IN  Reduce(DigitsValue(SubSeq(text, 1, d - 1) \o frac), Len(frac))

Ok(tokens) == [kind |-> "Ok", tokens |-> tokens]
Err(msg) == [kind |-> "Err", msg |-> msg]
Panic == [kind |-> "Panic"]
Running == [kind |-> "Running"]

\* f64::from_str accepts the text: digits with at most one '.', one digit at least
f64_parses(text) ==
    /\ \A i \in 1..Len(text) : is_digit(text[i]) \/ text[i] = "."
    /\ Cardinality({i \in 1..Len(text) : text[i] = "."}) <= 1
    /\ \E i \in 1..Len(text) : is_digit(text[i])

-----------------------------------------------------------------------------
(* The scan as a state machine: one action per function body or loop.      *)

ScanSet(s, p, r, sp) ==
    /\ scanner' = s
    /\ pc' = p
    /\ result' = r
    /\ spans' = sp
    /\ UNCHANGED parse_vars
    /\ UNCHANGED repl

\* a token was pushed by s: go back to the loop of scan_tokens
ScanPushed(s) == ScanSet(s, "loop", result, Append(spans, <<s.start, s.current>>))

\* an index outside the source: the thread panics
ScanPanic == ScanSet(scanner, "fault", Panic, spans)

\* the loop of Scanner::scan_tokens, and the Eof it pushes at the end
scan_tokens ==
    /\ pc = "loop"
    /\ IF ~is_at_end(scanner)
       THEN ScanSet(begin_token(scanner), "scan_token", result, spans)
       ELSE LET s1 == [scanner EXCEPT !.tokens = Append(@, EofToken(scanner))]
            IN  ScanSet(s1, "done", Ok(s1.tokens),
                        Append(spans, <<scanner.current, scanner.current>>))

\* Scanner::scan_token: advance and dispatch on the character
scan_token ==
    /\ pc = "scan_token"
    /\ LET c == advance_char(scanner)
           s1 == advance(scanner)
       IN  IF c = OOB THEN ScanPanic
           ELSE CASE c \in SingleChars -> ScanPushed(add_token(s1, SingleKind(c)))
                  [] c = "/" ->
                        LET m == matches(s1, "/")
                        IN  IF m.ok THEN ScanSet(m.s, "comment", result, spans)
                            ELSE ScanPushed(add_token(m.s, "Slash"))
                  [] c \in OpChars ->
                        LET m == matches(s1, "=")
                        IN  IF m.ok THEN ScanPushed(add_token(m.s, TwoCharKind(c)))
                            ELSE ScanPushed(add_token(m.s, OneCharKind(c)))
                  [] c \in Whitespace -> ScanSet(s1, "loop", result, spans)
                  [] c = NEWLINE -> ScanSet(newline(s1), "loop", result, spans)
                  [] c = QUOTE -> ScanSet(s1, "string", result, spans)
                  [] OTHER ->
                        IF is_digit(c) THEN ScanSet(s1, "number", result, spans)
                        ELSE IF is_alpha(c) THEN ScanSet(s1, "identifier", result, spans)
                        ELSE ScanSet(s1, "done", Err(<<"invalid token: ", c>>), spans)

\* one iteration of the comment loop of scan_token, or its exit
comment ==
    /\ pc = "comment"
    /\ IF comment_continues(scanner)
       THEN IF advance_char(scanner) = OOB THEN ScanPanic
            ELSE ScanSet(advance(scanner), "comment", result, spans)
       ELSE ScanSet(scanner, "loop", result, spans)

\* Scanner::string: one iteration of its loop, or what follows the loop
string ==
    /\ pc = "string"
    /\ IF string_continues(scanner)
       THEN LET s1 == string_line(scanner)
            IN  IF advance_char(s1) = OOB THEN ScanPanic
                ELSE ScanSet(advance(s1), "string", result, spans)
       ELSE IF is_at_end(scanner)
       THEN ScanSet(scanner, "done", Err(<<"Unterminated string">>), spans)
       ELSE LET s1 == advance(scanner)
            IN  IF advance_char(scanner) = OOB
                   \/ ~SliceOk(s1.source, s1.start + 1, s1.current - 1)
                THEN ScanPanic
                ELSE ScanPushed(add_literal_token(s1, "String",
                        LiteralStr(Slice(s1.source, s1.start + 1, s1.current - 1))))

\* the end of Scanner::number: parse the lexeme and push the token
NumberFinish(s) ==
    LET text == Slice(s.source, s.start, s.current)
    IN  IF ~f64_parses(text)
        THEN ScanSet(s, "done", Err(<<"invalid number: ">>), spans)
        ELSE ScanPushed(add_literal_token(s, "Number", LiteralNumber(parse_f64(text))))

\* Scanner::number: one iteration of either digit loop, the '.', or the end
number ==
    /\ pc \in {"number", "number_frac"}
    /\ IF is_digit(peek(scanner))
       THEN IF advance_char(scanner) = OOB THEN ScanPanic
            ELSE ScanSet(advance(scanner), pc, result, spans)
       ELSE IF pc = "number" /\ peek(scanner) = "." /\ is_digit(peek_next(scanner))
       THEN IF advance_char(scanner) = OOB THEN ScanPanic
            ELSE ScanSet(advance(scanner), "number_frac", result, spans)
       ELSE NumberFinish(scanner)

\* Scanner::identifier: one iteration of its loop, or the keyword lookup
identifier ==
    /\ pc = "identifier"
    /\ IF identifier_continues(scanner)
       THEN IF advance_char(scanner) = OOB THEN ScanPanic
            ELSE ScanSet(advance(scanner), "identifier", result, spans)
       ELSE LET literal == Slice(scanner.source, scanner.start, scanner.current)
                ty == match_keywords(literal)
            IN  IF ty # "NoKeyword" THEN ScanPushed(add_token(scanner, ty))
                ELSE ScanPushed(add_literal_token(scanner, "Identifier",
                                                  LiteralIdentifier(literal)))

-----------------------------------------------------------------------------
(* The scanner's specification: every source of the families below.        *)

Sources ==
    SeqsUpTo(MixedChars, MaxLen) \cup SeqsUpTo(PunctChars, MaxPunctLen)
        \cup SeqsUpTo(OpChars, MaxOpLen)
        \cup SeqsUpTo(EscapeChars, MaxEscapeLen)
        \cup SeqsUpTo(WordChars, MaxWordLen)
        \cup SeqsUpTo(NumberChars, MaxNumberLen)
        \cup ExampleSources

\* run_prompt is not running
ReplIdle == repl = [at |-> "idle", stdin |-> <<>>, stdout |-> <<>>]

ParserIdle ==
    /\ parser = [tokens |-> <<>>, current |-> 0]
    /\ stack = <<>>
    /\ ret = [kind |-> "None"]
    /\ ppc = "idle"
    /\ presult = Running

Init ==
    /\ \E input \in Sources : scanner = ScannerNew(input)
    /\ pc = "loop"
    /\ result = Running
    /\ spans = <<>>
    /\ ParserIdle
    /\ ReplIdle

Next == scan_tokens \/ scan_token \/ comment \/ string \/ number \/ identifier

Spec == Init /\ [][Next]_vars

FairInit ==
    /\ \E input \in SeqsUpTo(FairChars, MaxFairLen) : scanner = ScannerNew(input)
    /\ pc = "loop"
    /\ result = Running
    /\ spans = <<>>
    /\ ParserIdle
    /\ ReplIdle

\* the scan runs to completion on the calling thread: a step that can be taken
\* is taken
FairSpec == FairInit /\ [][Next]_vars /\ WF_vars(Next)

-----------------------------------------------------------------------------
(* The scanner of src/src/scanner_refactor.rs. Its scan_tokens, its comment *)
(* loop, its string and its helpers are the text of scanner.rs, and the     *)
(* actions above model them; scan_token and number differ.                  *)

\* scanner_refactor.rs, Scanner::scan_token: no identifiers, a letter is an
\* invalid token
scan_token_refactor ==
    /\ pc = "scan_token"
    /\ LET c == advance_char(scanner)
           s1 == advance(scanner)
       IN  IF c = OOB THEN ScanPanic
           ELSE CASE c \in SingleChars -> ScanPushed(add_token(s1, SingleKind(c)))
                  [] c = "/" ->
                        LET m == matches(s1, "/")
                        IN  IF m.ok THEN ScanSet(m.s, "comment", result, spans)
                            ELSE ScanPushed(add_token(m.s, "Slash"))
                  [] c \in OpChars ->
                        LET m == matches(s1, "=")
                        IN  IF m.ok THEN ScanPushed(add_token(m.s, TwoCharKind(c)))
                            ELSE ScanPushed(add_token(m.s, OneCharKind(c)))
                  [] c \in Whitespace -> ScanSet(s1, "loop", result, spans)
                  [] c = NEWLINE -> ScanSet(newline(s1), "loop", result, spans)
                  [] c = QUOTE -> ScanSet(s1, "string", result, spans)
                  [] OTHER ->
                        IF is_digit(c) THEN ScanSet(s1, "number", result, spans)
                        ELSE ScanSet(s1, "done", Err(<<"invalid token: ", c>>), spans)

\* scanner_refactor.rs, Scanner::number: the body is todo!(), which panics
number_refactor ==
    /\ pc = "number"
    /\ ScanPanic

RefactorChars == {"0", ".", " ", NEWLINE, QUOTE, "/", "a"}

\* the input of test_number_literal: a newline, eight spaces, 0.145, a
\* newline, eight spaces
RefactorTestSource ==
    <<NEWLINE, " ", " ", " ", " ", " ", " ", " ", " ", "0", ".", "1", "4", "5",
      NEWLINE, " ", " ", " ", " ", " ", " ", " ", " ">>

RefactorInit ==
    /\ \E input \in SeqsUpTo(RefactorChars, MaxRefactorLen) \cup {RefactorTestSource} :
          scanner = ScannerNew(input)
    /\ pc = "loop"
    /\ result = Running
    /\ spans = <<>>
    /\ ParserIdle
    /\ ReplIdle

RefactorNext == scan_tokens \/ scan_token_refactor \/ comment \/ string \/ number_refactor

RefactorSpec == RefactorInit /\ [][RefactorNext]_vars

-----------------------------------------------------------------------------
(* Expressions (src/src/expr.rs).                                          *)

Literal(lit) == [node |-> "Literal", lit |-> lit]
Unary(op, right) == [node |-> "Unary", op |-> op, right |-> right]
Binary(left, op, right) == [node |-> "Binary", left |-> left, op |-> op, right |-> right]
Grouping(inner) == [node |-> "Grouping", inner |-> inner]

OkExpr(e) == [ok |-> TRUE, val |-> e]
ParserError(msg) == [ok |-> FALSE, err |-> msg]

-----------------------------------------------------------------------------
(* Parser helpers (src/src/parser.rs). p is the Parser struct.             *)

\* what Vec::get(i).unwrap() stands for when i is outside the vector
OOBToken == [ty |-> OOB, lexeme |-> <<>>, literal |-> None, line |-> 0]

TokAt(tokens, i) == IF InRange(tokens, i) THEN tokens[i + 1] ELSE OOBToken

ParserNew(tokens) == [tokens |-> tokens, current |-> 0]

Parser_peek(p) == TokAt(p.tokens, p.current)

\* current - 1 underflows at current = 0: the lookup panics either way
Parser_previous(p) == TokAt(p.tokens, p.current - 1)

Parser_is_at_end(p) == Parser_peek(p).ty = "Eof"

Parser_check(p, ty) ==
    IF Parser_is_at_end(p) THEN FALSE ELSE Parser_peek(p).ty = ty

\* advance without its test of is_at_end
Parser_advance_unguarded(p) ==
    LET p1 == [p EXCEPT !.current = @ + 1]
    IN  [p |-> p1, tok |-> Parser_previous(p1),
         fault |-> Parser_peek(p) = OOBToken \/ Parser_previous(p1) = OOBToken]

\* advance: p is the parser afterwards, tok the token returned, fault a panic
Parser_advance(p) ==
    LET p1 == IF ~Parser_is_at_end(p) THEN [p EXCEPT !.current = @ + 1] ELSE p
    IN  [p |-> p1, tok |-> Parser_previous(p1),
         fault |-> Parser_peek(p) = OOBToken \/ Parser_previous(p1) = OOBToken]

\* matches: ok tells whether a token of one of the kinds was consumed
Parser_matches(p, types) ==
    IF types # <<>> /\ Parser_peek(p) = OOBToken
    THEN [ok |-> FALSE, p |-> p, fault |-> TRUE]
    ELSE IF \E i \in 1..Len(types) : Parser_check(p, types[i])
    THEN LET a == Parser_advance(p) IN [ok |-> TRUE, p |-> a.p, fault |-> a.fault]
    ELSE [ok |-> FALSE, p |-> p, fault |-> FALSE]

\* the message of primary and consume; the Eof arm is the one with the lexeme
ErrorMessage(next_token, message) ==
    IF next_token.ty = "Eof"
    THEN <<"token line ", next_token.line, ", lexeme: ", next_token.lexeme,
           ", error ", message>>
    ELSE <<"token line ", next_token.line, " at end, error ", message>>

\* consume that checks the kind and leaves the token where it is
Parser_consume_unconsumed(p, ty, message) ==
    IF Parser_peek(p) = OOBToken
    THEN [ok |-> FALSE, p |-> p, err |-> <<>>, fault |-> TRUE]
    ELSE IF Parser_check(p, ty)
    THEN [ok |-> TRUE, p |-> p, err |-> <<>>, fault |-> FALSE]
    ELSE [ok |-> FALSE, p |-> p, err |-> ErrorMessage(Parser_peek(p), message),
          fault |-> FALSE]

\* consume: ok, the parser afterwards, the error otherwise, fault a panic
Parser_consume(p, ty, message) ==
    IF Parser_peek(p) = OOBToken
    THEN [ok |-> FALSE, p |-> p, err |-> <<>>, fault |-> TRUE]
    ELSE IF Parser_check(p, ty)
    THEN LET a == Parser_advance(p)
         IN  [ok |-> TRUE, p |-> a.p, err |-> <<>>, fault |-> a.fault]
    ELSE [ok |-> FALSE, p |-> p, err |-> ErrorMessage(Parser_peek(p), message),
          fault |-> FALSE]

BinaryOps ==
    {"Plus", "Minus", "Star", "Slash", "EqualEqual", "BangEqual",
     "Greater", "GreaterEqual", "Less", "LessEqual"}

parse_binary_op(token) ==
    IF token.ty \in BinaryOps THEN [ok |-> TRUE, val |-> token.ty]
    ELSE ParserError(<<"should be binaryOp">>)

\* parse_unary_op without the arm of Minus
parse_unary_op_bang_only(token) ==
    IF token.ty \in {"Bang"} THEN [ok |-> TRUE, val |-> token.ty]
    ELSE ParserError(<<"should be unaryOp">>)

parse_unary_op(token) ==
    IF token.ty \in {"Bang", "Minus"} THEN [ok |-> TRUE, val |-> token.ty]
    ELSE ParserError(<<"should be unaryOp">>)

\* the arms of the match of synchronize without the arm of var
SyncKeywords_without_var == {"Class", "Fun", "For", "If", "While", "Print", "Return"}

\* the kinds at which synchronize stops
SyncKeywords == {"Class", "Fun", "Var", "For", "If", "While", "Print", "Return"}

-----------------------------------------------------------------------------
(* The parse as a state machine: a stack of frames, one per active call.   *)

Frame(fn) == [fn |-> fn, at |-> "start", expr |-> None, op |-> "None"]
Top == stack[Len(stack)]
Pop == SubSeq(stack, 1, Len(stack) - 1)
Call(f, callee) == Append([stack EXCEPT ![Len(stack)] = f], Frame(callee))
Running_(fn) == ppc = "run" /\ stack # <<>> /\ Top.fn = fn

ParseSet(p, st, r, pp, pr) ==
    /\ parser' = p
    /\ stack' = st
    /\ ret' = r
    /\ ppc' = pp
    /\ presult' = pr
    /\ UNCHANGED scan_vars
    /\ UNCHANGED repl

ParsePanic == ParseSet(parser, stack, ret, "fault", Panic)

\* the active call returns r to its caller
Return(p, r) == ParseSet(p, Pop, r, "run", presult)

\* parse running synchronize after expression whatever it returned
parse_synchronizing ==
    \/ /\ ppc = "parse"
       /\ ParseSet(parser, <<Frame("expression")>>, ret, "run", presult)
    \/ /\ ppc = "run" /\ stack = <<>>
       /\ ParseSet(parser, stack, ret, "synchronize", presult)

\* Parser::parse: call expression; on Err run synchronize, on Ok return
parse ==
    \/ /\ ppc = "parse"
       /\ ParseSet(parser, <<Frame("expression")>>, ret, "run", presult)
    \/ /\ ppc = "run" /\ stack = <<>>
       /\ IF ret.ok THEN ParseSet(parser, stack, ret, "done", ret)
          ELSE ParseSet(parser, stack, ret, "synchronize", presult)

\* Parser::expression
expression ==
    /\ Running_("expression")
    /\ IF Top.at = "start"
       THEN ParseSet(parser, Call([Top EXCEPT !.at = "equality"], "equality"),
                     ret, "run", presult)
       ELSE Return(parser, ret)

\* the right operand parsed by the level itself: a right-recursive level
RightOperand_self(fn, sub) == fn

\* the right operand parsed as a whole expression
RightOperand_expression(fn, sub) == "expression"

\* the function that parses the right operand of an operator of level fn:
\* the same sub-level that parsed the left operand
RightOperand(fn, sub) == sub

\* equality, comparison, term and factor: the operand, then the operator loop
BinaryLevel(fn, sub, types) ==
    /\ Running_(fn)
    /\ IF Top.at = "start"
       THEN ParseSet(parser, Call([Top EXCEPT !.at = "left"], sub), ret, "run", presult)
       ELSE IF ~ret.ok THEN Return(parser, ret)
       ELSE LET expr == IF Top.at = "left" THEN ret.val
                        ELSE Binary(Top.expr, Top.op, ret.val)
                m == Parser_matches(parser, types)
                operator == Parser_previous(m.p)
                binary_op == parse_binary_op(operator)
            IN  IF m.fault THEN ParsePanic
                ELSE IF ~m.ok THEN Return(parser, OkExpr(expr))
                ELSE IF operator = OOBToken THEN ParsePanic
                ELSE IF ~binary_op.ok THEN Return(m.p, binary_op)
                ELSE ParseSet(m.p,
                              Call([Top EXCEPT !.at = "right", !.expr = expr,
                                               !.op = binary_op.val],
                                   RightOperand(fn, sub)),
                              ret, "run", presult)

equality == BinaryLevel("equality", "comparison", <<"BangEqual", "EqualEqual">>)

comparison ==
    BinaryLevel("comparison", "term", <<"Greater", "GreaterEqual", "Less", "LessEqual">>)

term == BinaryLevel("term", "factor", <<"Minus", "Plus">>)

factor == BinaryLevel("factor", "unary", <<"Slash", "Star">>)

\* the operand of a prefix operator parsed as a whole expression
UnaryOperand_expression == "expression"

\* the function that parses the operand of a prefix operator: unary itself
UnaryOperand == "unary"

\* Parser::unary
unary ==
    /\ Running_("unary")
    /\ IF Top.at = "start"
       THEN LET m == Parser_matches(parser, <<"Bang", "Minus">>)
                operator == Parser_previous(m.p)
                unary_op == parse_unary_op(operator)
            IN  IF m.fault THEN ParsePanic
                ELSE IF ~m.ok
                THEN ParseSet(parser, Call([Top EXCEPT !.at = "primary"], "primary"),
                              ret, "run", presult)
                ELSE IF operator = OOBToken THEN ParsePanic
                ELSE IF ~unary_op.ok THEN Return(m.p, unary_op)
                ELSE ParseSet(m.p,
                              Call([Top EXCEPT !.at = "right", !.op = unary_op.val],
                                   UnaryOperand),
                              ret, "run", presult)
       ELSE IF Top.at = "right" /\ ret.ok
       THEN Return(parser, OkExpr(Unary(Top.op, ret.val)))
       ELSE Return(parser, ret)

\* the kinds primary turns into a literal, in the order it tries them
PrimaryLiterals == <<"False", "True", "Nil", "Number", "String">>

\* Parser::primary
primary ==
    /\ Running_("primary")
    /\ IF Top.at = "start"
       THEN LET lit == Parser_matches(parser, PrimaryLiterals)
                paren == Parser_matches(parser, <<"LParan">>)
            IN  IF lit.fault THEN ParsePanic
                ELSE IF lit.ok
                THEN Return(lit.p, OkExpr(Literal(Parser_previous(lit.p).ty)))
                ELSE IF paren.fault THEN ParsePanic
                ELSE IF paren.ok
                THEN ParseSet(paren.p, Call([Top EXCEPT !.at = "group"], "expression"),
                              ret, "run", presult)
                ELSE Return(parser,
                            ParserError(ErrorMessage(Parser_peek(parser),
                                                     "Expect expression")))
       ELSE IF ~ret.ok THEN Return(parser, ret)
       ELSE LET c == Parser_consume(parser, "RParan", "expect ')' after expression")
            IN  IF c.fault THEN ParsePanic
                ELSE IF ~c.ok THEN Return(parser, ParserError(c.err))
                ELSE Return(c.p, OkExpr(Grouping(ret.val)))

\* synchronize without the advance before its loop
synchronize_without_advance ==
    /\ ppc \in {"synchronize", "sync_loop"}
    /\ IF ppc = "synchronize"
       THEN ParseSet(parser, stack, ret, "sync_loop", presult)
       ELSE IF Parser_peek(parser) = OOBToken THEN ParsePanic
       ELSE IF Parser_is_at_end(parser) THEN ParseSet(parser, stack, ret, "done", ret)
       ELSE IF Parser_previous(parser) = OOBToken THEN ParsePanic
       ELSE IF Parser_previous(parser).ty = "SemiColon"
       THEN ParseSet(parser, stack, ret, "done", ret)
       ELSE IF Parser_peek(parser).ty \in SyncKeywords
       THEN ParseSet(parser, stack, ret, "done", ret)
       ELSE LET a == Parser_advance(parser)
            IN  IF a.fault THEN ParsePanic
                ELSE ParseSet(a.p, stack, ret, "sync_loop", presult)

\* Parser::synchronize: the first advance, then one iteration of its loop
synchronize ==
    /\ ppc \in {"synchronize", "sync_loop"}
    /\ IF ppc = "synchronize"
       THEN LET a == Parser_advance(parser)
            IN  IF a.fault THEN ParsePanic
                ELSE ParseSet(a.p, stack, ret, "sync_loop", presult)
       ELSE IF Parser_peek(parser) = OOBToken THEN ParsePanic
       ELSE IF Parser_is_at_end(parser) THEN ParseSet(parser, stack, ret, "done", ret)
       ELSE IF Parser_previous(parser) = OOBToken THEN ParsePanic
       ELSE IF Parser_previous(parser).ty = "SemiColon"
       THEN ParseSet(parser, stack, ret, "done", ret)
       ELSE IF Parser_peek(parser).ty \in SyncKeywords
       THEN ParseSet(parser, stack, ret, "done", ret)
       ELSE LET a == Parser_advance(parser)
            IN  IF a.fault THEN ParsePanic
                ELSE ParseSet(a.p, stack, ret, "sync_loop", presult)

-----------------------------------------------------------------------------
(* The parser's specification: every token sequence below, ended by Eof.   *)

TokenKinds ==
    {"Number", "Plus", "Minus", "Star", "Bang", "EqualEqual", "Less",
     "LParan", "RParan", "SemiColon", "Var"}

\* a lexeme the scanner gives a token of the kind
LexemeOf(ty) ==
    CASE ty = "Number" -> <<"1">> [] ty = "Plus" -> <<"+">>
      [] ty = "Minus" -> <<"-">> [] ty = "Star" -> <<"*">>
      [] ty = "Bang" -> <<"!">> [] ty = "EqualEqual" -> <<"=", "=">>
      [] ty = "Less" -> <<"<">> [] ty = "LParan" -> <<"(">>
      [] ty = "RParan" -> <<")">> [] ty = "SemiColon" -> <<";">>
      [] ty = "Var" -> <<"v", "a", "r">> [] ty = "Eof" -> <<>>
      [] ty = "Slash" -> <<"/">> [] ty = "BangEqual" -> <<"!", "=">>
      [] ty = "Greater" -> <<">">> [] ty = "GreaterEqual" -> <<">", "=">>
      [] ty = "LessEqual" -> <<"<", "=">>
      [] ty = "String" -> <<QUOTE, "a", QUOTE>>
      [] ty = "True" -> <<"t", "r", "u", "e">>
      [] ty = "False" -> <<"f", "a", "l", "s", "e">>
      [] ty = "Nil" -> <<"n", "i", "l">>

LiteralOf(ty) ==
    CASE ty = "Number" -> LiteralNumber([m |-> 1, e |-> 0])
      [] ty = "String" -> LiteralStr(<<"a">>)
      [] OTHER -> None

\* the kinds, one token a line, and the Eof on the line after the last
TokensOf(kinds) ==
    [i \in 1..Len(kinds) + 1 |->
        IF i <= Len(kinds) THEN Token(kinds[i], LexemeOf(kinds[i]), LiteralOf(kinds[i]), i)
        ELSE Token("Eof", <<>>, None, i)]

\* the operands of a chain, by position: the i-th operand has the i-th kind
OperandKinds == <<"Number", "String", "True", "False", "Nil">>
OperandAt(i) == OperandKinds[((i - 1) % Len(OperandKinds)) + 1]

\* the operators of the four levels of binary operators
LevelOps ==
    { {"BangEqual", "EqualEqual"}, {"Greater", "GreaterEqual", "Less", "LessEqual"},
      {"Minus", "Plus"}, {"Slash", "Star"} }
\* operators of all four levels, for the chains that mix levels
MixedOps == {"EqualEqual", "Less", "Greater", "Plus", "Star"}

\* operand, operator, operand, ..., operand: the i-th operator is ops[i]
Chain(ops) ==
    [i \in 1..(2 * Len(ops) + 1) |->
        IF i % 2 = 1 THEN OperandAt((i + 1) \div 2) ELSE ops[i \div 2]]

ChainKinds ==
    {Chain(ops) : ops \in SeqsUpTo(MixedOps, MaxChainOps)}
        \cup UNION {{Chain(ops) : ops \in SeqsUpTo(L, MaxChainOps)} : L \in LevelOps}

\* prefix operators, a primary, and nothing or a binary operator and an operand
PrefixKinds ==
    {pre \o <<p>> \o post :
        pre \in SeqsUpTo({"Bang", "Minus"}, MaxPrefixOps),
        p \in {"True", "Number"},
        post \in {<<>>, <<"Star", "Number">>, <<"Minus", "Number">>}}

\* '(' and an expression, followed by ')' or by something else
GroupKinds ==
    {<<"LParan">> \o e \o post :
        e \in {<<"Number">>, <<"Number", "Plus", "True">>, <<"Minus", "Number">>,
               <<"LParan", "Nil", "RParan">>, <<"LParan", "Nil">>},
        post \in {<<>>, <<"RParan">>, <<"SemiColon">>, <<"Number">>, <<"LParan">>,
                  <<"RParan", "Star", "Number">>, <<"RParan", "RParan">>}}

\* a complete expression followed by tokens that do not continue it
TrailingExprs ==
    {<<"Number">>, <<"Number", "Plus", "True">>, <<"Bang", "False">>,
     <<"LParan", "Nil", "RParan">>}
TrailingPosts ==
    {<<"Number">>, <<"RParan">>, <<"SemiColon">>, <<"SemiColon", "Number">>,
     <<"LParan", "Number", "RParan">>, <<"Var">>, <<"Bang">>}
TrailingKinds == {e \o post : e \in TrailingExprs, post \in TrailingPosts}

\* the token kinds of the inputs of the test of parser.rs and of the
\* examples of the documentation: 1 - 2 - 3, 1 + 2 * 3, 1 * 2 + 3, 1 < 2 == 3 > 4
ExampleKinds ==
    { <<"Number", "Plus", "Number">>,
      <<"Number", "Minus", "Number", "Minus", "Number">>,
      <<"Number", "Plus", "Number", "Star", "Number">>,
      <<"Number", "Star", "Number", "Plus", "Number">>,
      <<"Number", "Less", "Number", "EqualEqual", "Number", "Greater", "Number">> }

TokenSeqs ==
    {TokensOf(kinds) :
        kinds \in SeqsUpTo(TokenKinds, MaxTokens) \cup ChainKinds \cup PrefixKinds
                    \cup GroupKinds \cup TrailingKinds \cup ExampleKinds}

ScannerIdle ==
    /\ scanner = ScannerNew(<<>>)
    /\ pc = "idle"
    /\ result = Running
    /\ spans = <<>>

ParserInit ==
    /\ \E tokens \in TokenSeqs : parser = ParserNew(tokens)
    /\ stack = <<>>
    /\ ret = [kind |-> "None"]
    /\ ppc = "parse"
    /\ presult = Running
    /\ ScannerIdle
    /\ ReplIdle

ParserNext ==
    \/ parse \/ expression \/ equality \/ comparison \/ term \/ factor
    \/ unary \/ primary \/ synchronize

ParserSpec == ParserInit /\ [][ParserNext]_vars

-----------------------------------------------------------------------------
(* run_prompt (src/src/repl.rs): the prompt and read_line, then the scan of *)
(* the line by the scanner above, the display of its tokens, the parse by   *)
(* the parser above and the display of its result.                          *)

Write(text) == [repl EXCEPT !.stdout = Append(@, text)]

\* the prompt and read_line. read_line gives Err, or the next line with its
\* newline, or zero bytes (an empty input) when stdin is at its end; the
\* code does not look at the number of bytes read
run_prompt_read ==
    /\ repl.at = "prompt"
    /\ \/ /\ repl' = [Write(">> ") EXCEPT !.at = "returned",
                                          !.stdout = Append(@, "Error: ")]
          /\ UNCHANGED scan_vars
          /\ UNCHANGED parse_vars
       \/ LET input == IF repl.stdin = <<>> THEN <<>> ELSE Head(repl.stdin)
              rest == IF repl.stdin = <<>> THEN <<>> ELSE Tail(repl.stdin)
          IN  /\ repl' = [Write(">> ") EXCEPT !.at = "scan", !.stdin = rest]
              /\ scanner' = ScannerNew(input)
              /\ pc' = "loop"
              /\ result' = Running
              /\ spans' = <<>>
              /\ UNCHANGED parse_vars

\* what run_prompt does with the result of scan_tokens: the error, or the
\* tokens up to the Eof and Parser::new(tokens)
run_prompt_scanned ==
    /\ repl.at = "scan"
    /\ pc \in {"done", "fault"}
    /\ UNCHANGED scan_vars
    /\ IF result.kind = "Panic"
       THEN repl' = [repl EXCEPT !.at = "panicked"] /\ UNCHANGED parse_vars
       ELSE IF result.kind = "Err"
       THEN /\ repl' = [Write("Error while scanning tokens: ") EXCEPT !.at = "prompt"]
            /\ UNCHANGED parse_vars
       ELSE /\ repl' = [repl EXCEPT !.at = "parse",
                           !.stdout = @ \o [i \in 1..Len(result.tokens) |->
                                              IF result.tokens[i].ty = "Eof"
                                              THEN "End of line" ELSE "token"]]
            /\ parser' = ParserNew(result.tokens)
            /\ stack' = <<>>
            /\ ret' = [kind |-> "None"]
            /\ ppc' = "parse"
            /\ presult' = Running

\* what run_prompt does with the result of Parser::parse
run_prompt_parsed ==
    /\ repl.at = "parse"
    /\ ppc \in {"done", "fault"}
    /\ UNCHANGED scan_vars
    /\ UNCHANGED parse_vars
    /\ IF ppc = "fault" THEN repl' = [repl EXCEPT !.at = "panicked"]
       ELSE IF presult.ok THEN repl' = [Write("expression: ") EXCEPT !.at = "prompt"]
       ELSE repl' = [Write("wrong expression: ") EXCEPT !.at = "prompt"]

\* the lines typed: empty, blank, a number, an identifier, '(', an open
\* string, a comment and a sum, each with its newline
ReplLines ==
    { <<NEWLINE>>, <<" ", NEWLINE>>, <<"1", NEWLINE>>, <<"a", NEWLINE>>,
      <<"(", NEWLINE>>, <<QUOTE, NEWLINE>>, <<"/", "/", NEWLINE>>,
      <<"1", "+", "1", NEWLINE>>, <<"_", NEWLINE>> }

ReplInit ==
    /\ \E lines \in SeqsUpTo(ReplLines, MaxLines) :
          repl = [at |-> "prompt", stdin |-> lines, stdout |-> <<>>]
    /\ ScannerIdle
    /\ ParserIdle

ReplNext ==
    \/ run_prompt_read \/ run_prompt_scanned \/ run_prompt_parsed
    \/ Next \/ ParserNext

ReplSpec == ReplInit /\ [][ReplNext]_vars

-----------------------------------------------------------------------------
(* Properties of the parser.                                               *)

\* C1: on every token sequence whose only Eof is its last element, the Eof
\* alone included, Parser::parse returns Ok or Err and never panics: no
\* previous() at current = 0 and no token lookup out of range.
ParseNeverFaults == ppc # "fault"

-----------------------------------------------------------------------------
(* Properties of the scanner.                                              *)

Source == scanner.source

\* the number of '\n' in source[a..b)
CountNL(src, a, b) == Cardinality({k \in a..(b - 1) : CharAt(src, k) = NEWLINE})

\* C2: every Ok result holds exactly one Eof token, the last one, with an
\* empty lexeme, no literal, and the line 1 + the number of '\n' of the source.
EofTerminates ==
    result.kind = "Ok" =>
        LET t == result.tokens
        IN  /\ Len(t) >= 1
            /\ t[Len(t)] = Token("Eof", <<>>, None, 1 + CountNL(Source, 0, Len(Source)))
            /\ \A i \in 1..(Len(t) - 1) : t[i].ty # "Eof"

\* an Ok result with tokens before the Eof and a newline inside a string
EofTerminatesWitness ==
    /\ result.kind = "Ok"
    /\ Len(result.tokens) >= 2
    /\ \E i \in 1..Len(result.tokens) :
          /\ result.tokens[i].ty = "String"
          /\ NEWLINE \in {result.tokens[i].lexeme[k] : k \in 1..Len(result.tokens[i].lexeme)}

\* C3: in every state of the scan 0 <= start <= current <= len(source), no
\* index into the source is out of range, and the slice start+1 .. current-1
\* of a string literal is well formed.
ScanInBounds ==
    /\ pc # "fault"
    /\ 0 <= scanner.start
    /\ scanner.start <= scanner.current
    /\ scanner.current <= Len(Source)
    /\ pc = "string" => scanner.start + 1 <= scanner.current
    /\ \A i \in 1..Len(scanner.tokens) :
          scanner.tokens[i].ty = "String" => spans[i][1] + 1 <= spans[i][2] - 1

\* the end of the input reached inside a comment, string, number or identifier
ScanInBoundsWitness ==
    /\ pc \in {"comment", "string", "number", "number_frac", "identifier"}
    /\ scanner.current = Len(Source)
    /\ Len(Source) = MaxLen

\* the characters the scanner accepts at the start of a token
ValidStart(c) ==
    \/ c \in PunctChars \cup OpChars \cup Whitespace \cup {NEWLINE, QUOTE}
    \/ c \in Digits \cup Letters

\* C4: a token start holding a character c that is no punctuation, operator,
\* whitespace, newline, quote, digit or ASCII letter ends the scan at once with
\* Err("invalid token: c") and no token list; no other scan gives that error.
InvalidTokenStops ==
    /\ (scanner.current > scanner.start /\ ~ValidStart(CharAt(Source, scanner.start)))
          => (pc = "done"
              /\ result = Err(<<"invalid token: ", CharAt(Source, scanner.start)>>))
    /\ (result.kind = "Err" /\ result.msg[1] = "invalid token: ")
          => (/\ ~ValidStart(CharAt(Source, scanner.start))
              /\ result.msg[2] = CharAt(Source, scanner.start)
              /\ scanner.current = scanner.start + 1)

\* an invalid character met after tokens had been scanned
InvalidTokenStopsWitness ==
    /\ pc = "done"
    /\ result.kind = "Err"
    /\ result.msg[1] = "invalid token: "
    /\ Len(scanner.tokens) >= 2

\* a quote at the token start about to be scanned, and no quote after it
OpensUnterminated ==
    /\ pc = "scan_token"
    /\ CharAt(Source, scanner.current) = QUOTE
    /\ \A k \in (scanner.current + 1)..(Len(Source) - 1) : CharAt(Source, k) # QUOTE

\* C5: when a quote at a token start is followed by no further quote, the scan
\* terminates with Err("Unterminated string"), without looping or panicking.
UnterminatedStringFails ==
    OpensUnterminated ~> (pc = "done" /\ result = Err(<<"Unterminated string">>))

\* an unterminated string that holds a newline, after an earlier token
UnterminatedStringWitness ==
    /\ pc = "done"
    /\ result = Err(<<"Unterminated string">>)
    /\ CountNL(Source, scanner.start, Len(Source)) >= 1
    /\ Len(scanner.tokens) >= 1
    /\ Len(Source) = MaxFairLen

SourceOver(chars) == \A k \in 1..Len(Source) : Source[k] \in chars

\* the tokens of source[i..) when it holds only ! = < >, longest match first
RECURSIVE Munch(_, _)
Munch(src, i) ==
    IF i >= Len(src) THEN <<>>
    ELSE LET c == CharAt(src, i)
         IN  IF CharAt(src, i + 1) = "="
             THEN <<Token(CASE c = "!" -> "BangEqual" [] c = "=" -> "EqualEqual"
                            [] c = "<" -> "LessEqual" [] c = ">" -> "GreaterEqual",
                          <<c, "=">>, None, 1)>> \o Munch(src, i + 2)
             ELSE <<Token(CASE c = "!" -> "Bang" [] c = "=" -> "Equal"
                            [] c = "<" -> "Less" [] c = ">" -> "Greater",
                          <<c>>, None, 1)>> \o Munch(src, i + 1)

\* C6: a source of ! = < > only scans, left to right, to the two-character
\* token wherever one of them at a token start is followed by '=', and to the
\* one-character token otherwise ("===" is EqualEqual, Equal), then Eof.
MaximalMunch ==
    (pc = "done" /\ SourceOver(OpChars))
        => result = Ok(Munch(Source, 0) \o <<Token("Eof", <<>>, None, 1)>>)

\* "===" and longer runs: a two-character token followed by more
MaximalMunchWitness ==
    /\ pc = "done"
    /\ SourceOver(OpChars)
    /\ Len(Source) >= 3
    /\ result.kind = "Ok"
    /\ result.tokens[1].ty = "EqualEqual"
    /\ result.tokens[2].ty = "Equal"

\* the kind of each of the eleven punctuation characters
PunctKind(c) ==
    CASE c = "(" -> "LParan" [] c = ")" -> "RParan"
      [] c = "{" -> "LBrace" [] c = "}" -> "RBrace"
      [] c = "," -> "Comma" [] c = "." -> "Dot"
      [] c = "-" -> "Minus" [] c = "+" -> "Plus"
      [] c = ";" -> "SemiColon" [] c = "/" -> "Slash" [] c = "*" -> "Star"

\* one token a character, in source order, on line 1, then the Eof
OneTokenPerChar ==
    [i \in 1..(Len(Source) + 1) |->
        IF i <= Len(Source) THEN Token(PunctKind(Source[i]), <<Source[i]>>, None, 1)
        ELSE Token("Eof", <<>>, None, 1)]

NoDoubleSlash ==
    \A k \in 0..(Len(Source) - 2) : ~(CharAt(Source, k) = "/" /\ CharAt(Source, k + 1) = "/")

\* C7 (as stated): every sequence of the eleven punctuation characters, in any
\* order and with repetitions, scans to one token per character and the Eof.
PunctOneTokenPerChar ==
    (pc = "done" /\ SourceOver(PunctChars)) => result = Ok(OneTokenPerChar)

\* C7 (amended): every sequence of the eleven punctuation characters in which
\* no '/' is followed at once by another '/' scans to one token per character,
\* in source order, with its kind and its one-character lexeme, and the Eof.
PunctOneTokenPerCharNoComment ==
    (pc = "done" /\ SourceOver(PunctChars) /\ NoDoubleSlash)
        => result = Ok(OneTokenPerChar)

\* a longest punctuation source with a '/' in it that starts no comment
PunctOneTokenPerCharWitness ==
    /\ pc = "done"
    /\ SourceOver(PunctChars)
    /\ NoDoubleSlash
    /\ Len(Source) = MaxPunctLen
    /\ \E k \in 1..Len(Source) : Source[k] = "/"
    /\ result.kind = "Ok"

\* position i lies in a comment: a "//" before it on its line (sources without
\* string literals)
InComment(src, i) ==
    \E j \in 0..i :
        /\ CharAt(src, j) = "/"
        /\ CharAt(src, j + 1) = "/"
        /\ \A k \in j..i : CharAt(src, k) # NEWLINE

\* outside its comments the source holds punctuation, blanks and newlines only
PunctAndComments(src) ==
    \A i \in 0..(Len(src) - 1) :
        InComment(src, i) \/ CharAt(src, i) \in PunctChars \cup Whitespace \cup {NEWLINE}

\* the tokens of source[i..) of such a source: none for a comment or a blank
RECURSIVE TokensOutsideComments(_, _)
TokensOutsideComments(src, i) ==
    IF i >= Len(src) THEN <<Token("Eof", <<>>, None, 1 + CountNL(src, 0, Len(src)))>>
    ELSE IF ~InComment(src, i) /\ CharAt(src, i) \in PunctChars
    THEN <<Token(PunctKind(CharAt(src, i)), <<CharAt(src, i)>>, None,
                 1 + CountNL(src, 0, i))>> \o TokensOutsideComments(src, i + 1)
    ELSE TokensOutsideComments(src, i + 1)

\* C8: a "//" at a token start gives no token for any character from it up to
\* the next '\n' or the end of input; the '\n' is still counted, so the tokens
\* of the following lines carry their own line; a comment that runs to the end
\* of input leaves only the Eof after it.
CommentSkipped ==
    /\ (pc = "done" /\ PunctAndComments(Source) /\ ~NoDoubleSlash)
          => result = Ok(TokensOutsideComments(Source, 0))
    /\ pc = "comment" =>
          /\ CharAt(Source, scanner.start) = "/"
          /\ CharAt(Source, scanner.start + 1) = "/"
          /\ scanner.current >= scanner.start + 2
          /\ CountNL(Source, scanner.start, scanner.current) = 0
          /\ scanner.line = 1 + CountNL(Source, 0, scanner.start)
          /\ \A i \in 1..Len(spans) : spans[i][2] <= scanner.start

\* a comment at the start of the source, ended by a newline, a token after it
CommentSkippedWitness ==
    /\ pc = "done"
    /\ PunctAndComments(Source)
    /\ InComment(Source, 0)
    /\ result.kind = "Ok"
    /\ Len(result.tokens) = 2
    /\ result.tokens[1].line = 2

\* C9: every terminated string literal gives one String token: its literal is
\* Str of the characters strictly between the quotes, newlines kept, its
\* lexeme the whole span with both quotes, and its line the line of the
\* closing quote (the opening line plus the newlines inside).
StringLiteralDecoded ==
    /\ \A i \in 1..Len(scanner.tokens) :
          scanner.tokens[i].ty = "String" =>
              LET a == spans[i][1]
                  b == spans[i][2]
                  tok == scanner.tokens[i]
              IN  /\ b >= a + 2
                  /\ CharAt(Source, a) = QUOTE
                  /\ CharAt(Source, b - 1) = QUOTE
                  /\ \A k \in (a + 1)..(b - 2) : CharAt(Source, k) # QUOTE
                  /\ tok.lexeme = SubSeq(Source, a + 1, b)
                  /\ tok.literal = LiteralStr(SubSeq(Source, a + 2, b - 1))
                  /\ tok.line = 1 + CountNL(Source, 0, a) + CountNL(Source, a, b)
    /\ (pc = "loop" /\ scanner.current > scanner.start
            /\ CharAt(Source, scanner.start) = QUOTE)
          => /\ Len(scanner.tokens) >= 1
             /\ scanner.tokens[Len(scanner.tokens)].ty = "String"
             /\ spans[Len(spans)] = <<scanner.start, scanner.current>>
    /\ (pc = "done" /\ result.kind = "Err" /\ CharAt(Source, scanner.start) = QUOTE)
          => \A k \in (scanner.start + 1)..(Len(Source) - 1) : CharAt(Source, k) # QUOTE

\* a String token on the second line whose literal holds a newline
StringLiteralDecodedWitness ==
    \E i \in 1..Len(scanner.tokens) :
        /\ scanner.tokens[i].ty = "String"
        /\ scanner.tokens[i].literal.value = <<NEWLINE, "a">>
        /\ scanner.tokens[i].line = 2

\* C10 (as stated): every token, multi-line String tokens included, has the
\* line of the first character of its lexeme: 1 + the '\n' before it.
LineOfFirstChar ==
    \A i \in 1..Len(scanner.tokens) :
        scanner.tokens[i].line = 1 + CountNL(Source, 0, spans[i][1])

\* C10 (amended): every token other than a String has the line of the first
\* character of its lexeme; a String token has the line of its closing quote,
\* which is the line of its first character only when it holds no newline.
LineOfFirstCharButString ==
    \A i \in 1..Len(scanner.tokens) :
        scanner.tokens[i].line =
            IF scanner.tokens[i].ty = "String"
            THEN 1 + CountNL(Source, 0, spans[i][2])
            ELSE 1 + CountNL(Source, 0, spans[i][1])

\* a token on the second line after a String that spans two lines
LineOfFirstCharWitness ==
    /\ Len(scanner.tokens) >= 2
    /\ scanner.tokens[1].ty = "String"
    /\ CountNL(Source, spans[1][1], spans[1][2]) = 1
    /\ scanner.tokens[2].ty = "LParan"
    /\ scanner.tokens[2].line = 2

\* C11: a double quote that is immediately preceded by a backslash inside a
\* string literal does not close the literal, and the source "a\"b" (quote,
\* a, backslash, quote, b, quote) scans as one String token.
EscapedQuoteStaysInside ==
    /\ \A i \in 1..Len(scanner.tokens) :
          scanner.tokens[i].ty = "String" =>
              LET a == spans[i][1]
                  b == spans[i][2]
              IN  ~(b - 2 >= a + 1 /\ CharAt(Source, b - 2) = BACKSLASH)
    /\ (pc = "done" /\ Source = EscapedQuoteSource) =>
          /\ result.kind = "Ok"
          /\ Len(result.tokens) = 2
          /\ result.tokens[1].ty = "String"
          /\ result.tokens[1].lexeme = EscapedQuoteSource
          /\ result.tokens[2].ty = "Eof"

\* the sixteen reserved words and the kinds of their tokens
ReservedWords ==
    { <<<<"a", "n", "d">>, "And">>, <<<<"o", "r">>, "Or">>, <<<<"i", "f">>, "If">>,
      <<<<"e", "l", "s", "e">>, "Else">>, <<<<"t", "r", "u", "e">>, "True">>,
      <<<<"f", "a", "l", "s", "e">>, "False">>, <<<<"f", "o", "r">>, "For">>,
      <<<<"w", "h", "i", "l", "e">>, "While">>, <<<<"n", "i", "l">>, "Nil">>,
      <<<<"f", "u", "n">>, "Fun">>, <<<<"r", "e", "t", "u", "r", "n">>, "Return">>,
      <<<<"c", "l", "a", "s", "s">>, "Class">>, <<<<"s", "u", "p", "e", "r">>, "Super">>,
      <<<<"t", "h", "i", "s">>, "This">>, <<<<"v", "a", "r">>, "Var">>,
      <<<<"p", "r", "i", "n", "t">>, "Print">> }

KeywordKinds == {w[2] : w \in ReservedWords}

\* C12: a token that starts at an ASCII letter covers the maximal run of
\* letters and digits from there; it is the keyword token, with no literal,
\* when the whole run is one of the sixteen reserved words, and otherwise an
\* Identifier whose literal is the run; "variable", "var1" and "iffy" are
\* single Identifiers and "var five = 5;" is Var, Identifier(five), Equal,
\* Number, SemiColon, Eof.
KeywordOrIdentifier ==
    /\ Cardinality(ReservedWords) = 16
    /\ \A i \in 1..Len(scanner.tokens) :
          LET tok == scanner.tokens[i]
              a == spans[i][1]
              b == spans[i][2]
              run == SubSeq(Source, a + 1, b)
          IN  (tok.ty \in KeywordKinds \cup {"Identifier"} \/ CharAt(Source, a) \in Letters) =>
                /\ b > a
                /\ CharAt(Source, a) \in Letters
                /\ \A k \in a..(b - 1) : CharAt(Source, k) \in Letters \cup Digits
                /\ b = Len(Source) \/ CharAt(Source, b) \notin Letters \cup Digits
                /\ tok.lexeme = run
                /\ IF \E w \in ReservedWords : w[1] = run
                   THEN /\ \E w \in ReservedWords : w[1] = run /\ tok.ty = w[2]
                        /\ tok.literal = None
                   ELSE /\ tok.ty = "Identifier"
                        /\ tok.literal = LiteralIdentifier(run)
    /\ (pc = "loop" /\ scanner.current > scanner.start
            /\ CharAt(Source, scanner.start) \in Letters)
          => /\ Len(scanner.tokens) >= 1
             /\ spans[Len(spans)] = <<scanner.start, scanner.current>>
    /\ (pc = "done" /\ Source = VarStatementSource) =>
          /\ result.kind = "Ok"
          /\ [i \in 1..Len(result.tokens) |-> result.tokens[i].ty]
                = <<"Var", "Identifier", "Equal", "Number", "SemiColon", "Eof">>
          /\ result.tokens[2].literal = LiteralIdentifier(<<"f", "i", "v", "e">>)
    /\ (pc = "done" /\ Source \in { <<"v", "a", "r", "i", "a", "b", "l", "e">>,
                                     <<"v", "a", "r", "1">>, <<"i", "f", "f", "y">> }) =>
          /\ result.kind = "Ok"
          /\ Len(result.tokens) = 2
          /\ result.tokens[1].ty = "Identifier"
          /\ result.tokens[1].literal = LiteralIdentifier(Source)

\* a keyword token followed by an Identifier token
KeywordOrIdentifierWitness ==
    /\ result.kind = "Ok"
    /\ Len(result.tokens) = 3
    /\ result.tokens[1].ty \in KeywordKinds
    /\ result.tokens[2].ty = "Identifier"

\* the end of the maximal run of digits of src that starts at index i
RECURSIVE DigitRunEnd(_, _)
DigitRunEnd(src, i) ==
    IF CharAt(src, i) \in Digits THEN DigitRunEnd(src, i + 1) ELSE i

KindsOf(tokens) == [i \in 1..Len(tokens) |-> tokens[i].ty]

\* C13: the lexeme of a Number token is the maximal run of digits from its
\* start, followed by '.' and the maximal run of digits after it exactly when
\* a digit follows that '.'; "1." is Number(1), Dot; ".5" is Dot, Number(5);
\* "1.2.3" is Number(1.2), Dot, Number(3); "0.145" is one Number of value
\* 0.145 and "5" one of value 5.
NumberLexeme ==
    /\ \A i \in 1..Len(scanner.tokens) :
          LET tok == scanner.tokens[i]
              a == spans[i][1]
              b == spans[i][2]
              d == DigitRunEnd(Source, a)
          IN  (tok.ty = "Number" \/ CharAt(Source, a) \in Digits) =>
                /\ tok.ty = "Number"
                /\ d > a
                /\ b = IF CharAt(Source, d) = "." /\ CharAt(Source, d + 1) \in Digits
                       THEN DigitRunEnd(Source, d + 1)
                       ELSE d
                /\ tok.lexeme = SubSeq(Source, a + 1, b)
                /\ tok.literal.kind = "Number"
    /\ (pc = "loop" /\ scanner.current > scanner.start
            /\ CharAt(Source, scanner.start) \in Digits)
          => /\ Len(scanner.tokens) >= 1
             /\ spans[Len(spans)] = <<scanner.start, scanner.current>>
    /\ (pc = "done" /\ Source = <<"1", ".">>) =>
          /\ result.kind = "Ok"
          /\ KindsOf(result.tokens) = <<"Number", "Dot", "Eof">>
          /\ result.tokens[1].literal = LiteralNumber([m |-> 1, e |-> 0])
    /\ (pc = "done" /\ Source = <<".", "5">>) =>
          /\ result.kind = "Ok"
          /\ KindsOf(result.tokens) = <<"Dot", "Number", "Eof">>
          /\ result.tokens[2].literal = LiteralNumber([m |-> 5, e |-> 0])
    /\ (pc = "done" /\ Source = <<"1", ".", "2", ".", "3">>) =>
          /\ result.kind = "Ok"
          /\ KindsOf(result.tokens) = <<"Number", "Dot", "Number", "Eof">>
          /\ result.tokens[1].literal = LiteralNumber([m |-> 12, e |-> 1])
          /\ result.tokens[3].literal = LiteralNumber([m |-> 3, e |-> 0])
    /\ (pc = "done" /\ Source = <<"0", ".", "1", "4", "5">>) =>
          /\ result.kind = "Ok"
          /\ KindsOf(result.tokens) = <<"Number", "Eof">>
          /\ result.tokens[1].literal = LiteralNumber([m |-> 145, e |-> 3])
    /\ (pc = "done" /\ Source = <<"5">>) =>
          /\ result.kind = "Ok"
          /\ result.tokens[1].literal = LiteralNumber([m |-> 5, e |-> 0])

\* a Number with a fraction, then the Dot it did not take, then a Number
NumberLexemeWitness ==
    /\ result.kind = "Ok"
    /\ KindsOf(result.tokens) = <<"Number", "Dot", "Number", "Eof">>
    /\ Len(result.tokens[1].lexeme) = 3
    /\ result.tokens[1].lexeme[2] = "."

\* the variant of the literal a token of kind ty carries
LiteralVariant(ty) ==
    CASE ty = "Identifier" -> "Identifier"
      [] ty = "String" -> "Str"
      [] ty = "Number" -> "Number"
      [] OTHER -> "None"

\* C14: a token has a literal if and only if its kind is Identifier, String
\* or Number, and the variant of the literal is the one of the kind:
\* Identifier(text), Str(text), Number(value); every punctuation, operator,
\* keyword and Eof token has the literal None.
LiteralIffKind ==
    /\ \A i \in 1..Len(scanner.tokens) :
          LET tok == scanner.tokens[i]
          IN  /\ tok.literal.kind = LiteralVariant(tok.ty)
              /\ tok.literal = None <=> tok.ty \notin {"Identifier", "String", "Number"}
              /\ tok.ty \in {"Identifier", "String"} =>
                    tok.literal.value \in Seq(Letters \cup Digits \cup MixedChars \cup EscapeChars)
              /\ tok.ty = "Number" => tok.literal.value.m \in Nat /\ tok.literal.value.e \in Nat
    /\ result.kind = "Ok" => result.tokens = scanner.tokens

\* a returned sequence with a keyword, an Identifier, a Number, an operator
LiteralIffKindWitness ==
    /\ result.kind = "Ok"
    /\ \E i \in 1..Len(result.tokens) : result.tokens[i].ty \in KeywordKinds
    /\ \E i \in 1..Len(result.tokens) : result.tokens[i].ty = "Identifier"
    /\ \E i \in 1..Len(result.tokens) : result.tokens[i].ty = "Number"
    /\ \E i \in 1..Len(result.tokens) : result.tokens[i].ty = "Equal"

\* index k of the source lies in the span of no token
Uncovered(k) == \A i \in 1..Len(spans) : ~(spans[i][1] <= k /\ k < spans[i][2])

\* index k lies in a // comment: two uncovered slashes at j and j + 1, and no
\* newline and no token from j to k
InSkippedComment(k) ==
    \E j \in 0..k :
        /\ CharAt(Source, j) = "/"
        /\ CharAt(Source, j + 1) = "/"
        /\ Uncovered(j + 1)
        /\ \A x \in j..k : Uncovered(x) /\ CharAt(Source, x) # NEWLINE

\* C15: in an Ok result the lexeme of each token before the Eof is one span
\* source[start..current); the spans are non-empty, disjoint and in source
\* order; every character of the source in no span is a space, a tab, a
\* carriage return, a newline or part of a // comment.
SpansPartition ==
    result.kind = "Ok" =>
        LET n == Len(result.tokens)
        IN  /\ Len(spans) = n
            /\ \A i \in 1..(n - 1) :
                  /\ 0 <= spans[i][1]
                  /\ spans[i][1] < spans[i][2]
                  /\ spans[i][2] <= Len(Source)
                  /\ result.tokens[i].lexeme = SubSeq(Source, spans[i][1] + 1, spans[i][2])
            /\ \A i \in 1..(n - 2) : spans[i][2] <= spans[i + 1][1]
            /\ \A k \in 0..(Len(Source) - 1) :
                  Uncovered(k) =>
                      \/ CharAt(Source, k) \in {" ", "\t", "\r", NEWLINE}
                      \/ InSkippedComment(k)

\* tokens separated by a tab, a carriage return, a comment and a newline
SpansPartitionWitness ==
    /\ result.kind = "Ok"
    /\ Len(result.tokens) >= 3
    /\ \E k \in 0..(Len(Source) - 1) : Uncovered(k) /\ CharAt(Source, k) = "\t"
    /\ \E k \in 0..(Len(Source) - 1) : Uncovered(k) /\ CharAt(Source, k) = "\r"
    /\ \E k \in 0..(Len(Source) - 1) : Uncovered(k) /\ CharAt(Source, k) = "a"
    /\ \E k \in 0..(Len(Source) - 1) : Uncovered(k) /\ CharAt(Source, k) = NEWLINE

-----------------------------------------------------------------------------
(* Properties of the trees the parser returns.                             *)

\* the kinds of the tokens given to the parser, without the Eof
ParserKinds == SubSeq(KindsOf(parser.tokens), 1, Len(parser.tokens) - 1)

\* Parser::parse has returned Ok
Parsed == ppc = "done" /\ presult.ok

\* the grammar level of a binary operator, the loosest first
LevelOf(op) ==
    CASE op \in {"BangEqual", "EqualEqual"} -> 1
      [] op \in {"Greater", "GreaterEqual", "Less", "LessEqual"} -> 2
      [] op \in {"Minus", "Plus"} -> 3
      [] op \in {"Slash", "Star"} -> 4

LiteralKinds == {"Number", "String", "True", "False", "Nil"}

\* kinds is literal, operator, literal, ..., literal
IsChain(kinds) ==
    /\ Len(kinds) % 2 = 1
    /\ \A i \in 1..Len(kinds) :
          IF i % 2 = 1 THEN kinds[i] \in LiteralKinds ELSE kinds[i] \in BinaryOps

\* the left-nested tree of a chain
RECURSIVE LeftNest(_)
LeftNest(kinds) ==
    IF Len(kinds) = 1 THEN Literal(kinds[1])
    ELSE Binary(LeftNest(SubSeq(kinds, 1, Len(kinds) - 2)),
                kinds[Len(kinds) - 1], Literal(kinds[Len(kinds)]))

\* no Binary node of e has as its right child a Binary of the same level
RECURSIVE RightNeverSameLevel(_)
RightNeverSameLevel(e) ==
    CASE e.node = "Literal" -> TRUE
      [] e.node = "Grouping" -> RightNeverSameLevel(e.inner)
      [] e.node = "Unary" -> RightNeverSameLevel(e.right)
      [] e.node = "Binary" ->
            /\ e.right.node = "Binary" => LevelOf(e.right.op) # LevelOf(e.op)
            /\ RightNeverSameLevel(e.left)
            /\ RightNeverSameLevel(e.right)

\* C16: a chain p0 op1 p1 ... opn pn whose operators all belong to one level
\* parses to the left-nested tree Binary(..Binary(p0,op1,p1)..,opn,pn), and in
\* no tree is the right child of a Binary an un-parenthesised Binary of the
\* same level; 1 - 2 - 3 is Binary(Binary(1,-,2),-,3) and 2 + 3 is
\* Binary(Literal(Number),Plus,Literal(Number)).
LeftAssociative ==
    /\ Parsed => RightNeverSameLevel(presult.val)
    /\ (ppc = "done" /\ IsChain(ParserKinds)
            /\ \A i, j \in 1..Len(ParserKinds) :
                  (i % 2 = 0 /\ j % 2 = 0) =>
                      LevelOf(ParserKinds[i]) = LevelOf(ParserKinds[j]))
          => presult = OkExpr(LeftNest(ParserKinds))
    /\ (ppc = "done" /\ ParserKinds = <<"Number", "Minus", "Number", "Minus", "Number">>)
          => presult = OkExpr(Binary(Binary(Literal("Number"), "Minus", Literal("Number")),
                                     "Minus", Literal("Number")))
    /\ (ppc = "done" /\ ParserKinds = <<"Number", "Plus", "Number">>)
          => presult = OkExpr(Binary(Literal("Number"), "Plus", Literal("Number")))

\* a chain of three operators of one level, two of them different
LeftAssociativeWitness ==
    /\ Parsed
    /\ IsChain(ParserKinds)
    /\ Len(ParserKinds) = 7
    /\ LevelOf(ParserKinds[2]) = LevelOf(ParserKinds[4])
    /\ LevelOf(ParserKinds[4]) = LevelOf(ParserKinds[6])
    /\ ParserKinds[2] # ParserKinds[4]
    /\ presult.val.left.node = "Binary"
    /\ presult.val.left.left.node = "Binary"

\* no Binary node of e has as a direct child a Binary of a looser level, and
\* no Unary node has a Binary as its operand
RECURSIVE NoLooserChild(_)
NoLooserChild(e) ==
    CASE e.node = "Literal" -> TRUE
      [] e.node = "Grouping" -> NoLooserChild(e.inner)
      [] e.node = "Unary" -> e.right.node # "Binary" /\ NoLooserChild(e.right)
      [] e.node = "Binary" ->
            /\ e.left.node = "Binary" => LevelOf(e.left.op) >= LevelOf(e.op)
            /\ e.right.node = "Binary" => LevelOf(e.right.op) >= LevelOf(e.op)
            /\ NoLooserChild(e.left)
            /\ NoLooserChild(e.right)

\* the token kinds of a tree, in source order
RECURSIVE Flatten(_)
Flatten(e) ==
    CASE e.node = "Literal" -> <<e.lit>>
      [] e.node = "Grouping" -> <<"LParan">> \o Flatten(e.inner) \o <<"RParan">>
      [] e.node = "Unary" -> <<e.op>> \o Flatten(e.right)
      [] e.node = "Binary" -> Flatten(e.left) \o <<e.op>> \o Flatten(e.right)

Num == Literal("Number")

\* C17: the binding order is equality < comparison < term < factor < unary:
\* in every tree parse returns, a Binary never has as a direct child a Binary
\* of a looser level (and a Unary never a Binary), every chain of literals
\* and binary operators is parsed whole into one tree, 1 + 2 * 3 is
\* Binary(1,+,Binary(2,*,3)), 1 * 2 + 3 is Binary(Binary(1,*,2),+,3) and
\* 1 < 2 == 3 > 4 is Binary(Binary(1,<,2),==,Binary(3,>,4)).
PrecedenceOrder ==
    /\ Parsed => NoLooserChild(presult.val)
    /\ (ppc = "done" /\ IsChain(ParserKinds))
          => presult.ok /\ Flatten(presult.val) = ParserKinds
    /\ (ppc = "done" /\ ParserKinds = <<"Number", "Plus", "Number", "Star", "Number">>)
          => presult = OkExpr(Binary(Num, "Plus", Binary(Num, "Star", Num)))
    /\ (ppc = "done" /\ ParserKinds = <<"Number", "Star", "Number", "Plus", "Number">>)
          => presult = OkExpr(Binary(Binary(Num, "Star", Num), "Plus", Num))
    /\ (ppc = "done" /\ ParserKinds = <<"Number", "Less", "Number", "EqualEqual",
                                        "Number", "Greater", "Number">>)
          => presult = OkExpr(Binary(Binary(Num, "Less", Num), "EqualEqual",
                                     Binary(Num, "Greater", Num)))

\* a chain whose loosest operator is in the middle: both children are Binary
PrecedenceOrderWitness ==
    /\ Parsed
    /\ IsChain(ParserKinds)
    /\ Len(ParserKinds) = 7
    /\ presult.val.left.node = "Binary"
    /\ presult.val.right.node = "Binary"
    /\ LevelOf(presult.val.op) < LevelOf(presult.val.left.op)
    /\ LevelOf(presult.val.op) < LevelOf(presult.val.right.op)

\* kinds is one or more prefix operators and then one literal
IsPrefixed(kinds) ==
    /\ Len(kinds) >= 2
    /\ \A i \in 1..(Len(kinds) - 1) : kinds[i] \in {"Bang", "Minus"}
    /\ kinds[Len(kinds)] \in LiteralKinds

\* the Unary nodes of the prefix operators of kinds, nested in source order
RECURSIVE NestUnary(_)
NestUnary(kinds) ==
    IF Len(kinds) = 1 THEN Literal(kinds[1])
    ELSE Unary(kinds[1], NestUnary(SubSeq(kinds, 2, Len(kinds))))

\* no Unary node of e has a Binary as its operand
RECURSIVE UnaryOverPrimary(_)
UnaryOverPrimary(e) ==
    CASE e.node = "Literal" -> TRUE
      [] e.node = "Grouping" -> UnaryOverPrimary(e.inner)
      [] e.node = "Unary" -> e.right.node # "Binary" /\ UnaryOverPrimary(e.right)
      [] e.node = "Binary" -> UnaryOverPrimary(e.left) /\ UnaryOverPrimary(e.right)

\* C18: k >= 1 prefix operators and a primary parse to k nested Unary nodes in
\* source order with the primary innermost (!!true is
\* Unary(Bang,Unary(Bang,Literal(True)))); a prefix operator binds tighter
\* than a binary one: -1 * 2 is Binary(Unary(Minus,1),Star,2) and no Unary
\* has an un-parenthesised Binary as its operand.
PrefixNesting ==
    /\ Parsed => UnaryOverPrimary(presult.val)
    /\ (ppc = "done" /\ IsPrefixed(ParserKinds))
          => presult = OkExpr(NestUnary(ParserKinds))
    /\ (ppc = "done" /\ Len(ParserKinds) >= 4
            /\ IsPrefixed(SubSeq(ParserKinds, 1, Len(ParserKinds) - 2))
            /\ ParserKinds[Len(ParserKinds) - 1] \in BinaryOps
            /\ ParserKinds[Len(ParserKinds)] \in LiteralKinds)
          => presult = OkExpr(Binary(
                 NestUnary(SubSeq(ParserKinds, 1, Len(ParserKinds) - 2)),
                 ParserKinds[Len(ParserKinds) - 1],
                 Literal(ParserKinds[Len(ParserKinds)])))
    /\ (ppc = "done" /\ ParserKinds = <<"Bang", "Bang", "True">>)
          => presult = OkExpr(Unary("Bang", Unary("Bang", Literal("True"))))
    /\ (ppc = "done" /\ ParserKinds = <<"Minus", "Number", "Star", "Number">>)
          => presult = OkExpr(Binary(Unary("Minus", Num), "Star", Num))

\* three prefix operators, not all the same, before the left operand of '*'
PrefixNestingWitness ==
    /\ Parsed
    /\ Len(ParserKinds) = 6
    /\ IsPrefixed(SubSeq(ParserKinds, 1, 4))
    /\ ParserKinds[1] # ParserKinds[2]
    /\ ParserKinds[5] = "Star"
    /\ presult.val.node = "Binary"
    /\ presult.val.left.node = "Unary"
    /\ presult.val.left.right.right.node = "Unary"

ExpectRParan == "expect ')' after expression"

\* primary is back from the expression that follows '(' with the tree ret.val
AfterGroupExpression == Running_("primary") /\ Top.at = "group" /\ ret.ok

\* the step from the expression after '(' gives Grouping(e) and consumes the
\* ')' when the next token is ')', and otherwise gives the error and no tree;
\* a Grouping is returned by no other step, and an error is handed up as it is
GroupingStep ==
    /\ AfterGroupExpression =>
          IF Parser_peek(parser).ty = "RParan"
          THEN /\ ret' = OkExpr(Grouping(ret.val))
               /\ parser' = [parser EXCEPT !.current = @ + 1]
          ELSE /\ ret' # ret
               /\ ~ret'.ok
               /\ DOMAIN ret' = {"ok", "err"}
               /\ ret'.err[Len(ret'.err)] = ExpectRParan
               /\ parser' = parser
    /\ (ret' # ret /\ ret'.ok /\ ret'.val.node = "Grouping") =>
          /\ AfterGroupExpression
          /\ Parser_peek(parser).ty = "RParan"
          /\ ret'.val.inner = ret.val
    /\ (ppc = "run" /\ DOMAIN ret = {"ok", "err"}) => ret' = ret
    /\ (ppc' = "done" /\ ppc # "done") => presult' = ret'

\* C19: after '(' and a complete expression e, primary returns Grouping(e)
\* only if the next token is ')', which it consumes; if the next token is
\* anything else, Eof included, parse returns Err whose message contains
\* "expect ')' after expression", and no tree.
GroupingClosed ==
    /\ [][GroupingStep]_vars
    /\ []((ppc = "done" /\ ParserKinds = <<"LParan", "Number", "RParan">>)
            => presult = OkExpr(Grouping(Num)))
    /\ []((ppc = "done"
            /\ ParserKinds \in {<<"LParan", "Number">>, <<"LParan", "Number", "SemiColon">>,
                                <<"LParan", "Number", "Number">>,
                                <<"LParan", "Number", "Plus", "True", "LParan">>})
            => /\ ~presult.ok
               /\ DOMAIN presult = {"ok", "err"}
               /\ presult.err[Len(presult.err)] = ExpectRParan)

\* parse has returned the error of a '(' whose expression of three tokens is
\* followed by a token that is neither ')' nor the Eof
GroupingClosedWitness ==
    /\ ppc = "done"
    /\ ~presult.ok
    /\ presult.err[Len(presult.err)] = ExpectRParan
    /\ ParserKinds[1] = "LParan"
    /\ Len(ParserKinds) = 5
    /\ ParserKinds[5] = "SemiColon"

\* C20: when the tokens from position 0 form a complete expression and the
\* next token does not continue it (Number Number Eof, Number ')' Eof,
\* Number ';' Eof), parse returns Ok with the tree of that expression, runs
\* synchronize on no Ok result, and leaves the cursor on the first token it
\* did not consume, which is no binary operator.
TrailingTokensLeft ==
    /\ ppc \in {"synchronize", "sync_loop"} => ~ret.ok
    /\ Parsed =>
          /\ parser.current = Len(Flatten(presult.val))
          /\ parser.current <= Len(ParserKinds)
          /\ Flatten(presult.val) = SubSeq(ParserKinds, 1, parser.current)
          /\ DOMAIN presult = {"ok", "val"}
          /\ Parser_peek(parser).ty \notin BinaryOps
    /\ ppc = "done" =>
          \A e \in TrailingExprs, post \in TrailingPosts :
              ParserKinds = e \o post =>
                  /\ presult.ok
                  /\ Flatten(presult.val) = e
                  /\ parser.current = Len(e)
                  /\ Parser_peek(parser).ty = post[1]
    /\ (ppc = "done" /\ ParserKinds \in {<<"Number", "Number">>, <<"Number", "RParan">>,
                                         <<"Number", "SemiColon">>})
          => presult = OkExpr(Num) /\ parser.current = 1

\* an Ok tree of three tokens with three tokens left after it
TrailingTokensLeftWitness ==
    /\ Parsed
    /\ parser.current = 3
    /\ Len(ParserKinds) = 6
    /\ presult.val.node = "Binary"
    /\ Parser_peek(parser).ty = "LParan"

-----------------------------------------------------------------------------
(* Properties of the parser's errors and of its recovery.                  *)

ExpectExpression == "Expect expression"

\* C21: when primary or consume fails at token t, the message carries the
\* line and the lexeme of t if t is an ordinary token, and is the line-only
\* form, with no lexeme, exactly when t is the Eof; either way it ends with
\* the description "Expect expression" or "expect ')' after expression".
\* (parse is about to run synchronize: the cursor is still on t.)
ErrorNamesToken ==
    ppc = "synchronize" =>
        LET t == Parser_peek(parser)
            msg == ret.err
        IN  /\ msg[Len(msg)] \in {ExpectExpression, ExpectRParan}
            /\ msg[2] = t.line
            /\ IF t.ty = "Eof"
               THEN msg = <<"token line ", t.line, " at end, error ", msg[Len(msg)]>>
               ELSE msg = <<"token line ", t.line, ", lexeme: ", t.lexeme,
                            ", error ", msg[Len(msg)]>>

-----------------------------------------------------------------------------
(* Properties of the scanner of scanner_refactor.rs.                       *)

\* C22: scanner_refactor::scan_tokens on the source of test_number_literal
\* (0.145 between whitespace and newlines) returns Ok with one Number token
\* of lexeme 0.145 on line 2 and the Eof on line 3, and a digit at the start
\* of a token never aborts or faults the scan.
RefactorScansNumber ==
    /\ pc # "fault"
    /\ (pc = "done" /\ Source = RefactorTestSource) =>
          /\ result.kind = "Ok"
          /\ Len(result.tokens) = 2
          /\ result.tokens[1].ty = "Number"
          /\ result.tokens[1].lexeme = <<"0", ".", "1", "4", "5">>
          /\ result.tokens[1].line = 2
          /\ result.tokens[2] = Token("Eof", <<>>, None, 3)

\* the index of the Eof token, the last of the sequence
EofIndex == Len(parser.tokens) - 1

\* one step of the parse: the cursor moves forward by one token at most, over
\* a token that is not the Eof, and the tokens stay as they are
CursorStep ==
    /\ parser'.tokens = parser.tokens
    /\ parser'.current \in {parser.current, parser.current + 1}
    /\ parser'.current # parser.current =>
          /\ Parser_peek(parser).ty # "Eof"
          /\ parser.current < EofIndex

\* C23: in every state of Parser::parse, synchronize included, 0 <= current
\* <= index of the Eof and current never decreases; at the Eof no operation
\* increments it and check(kind) is false for every kind, Eof included; no
\* rule consumes the Eof and no token beyond it is read.
CursorWithinTokens ==
    /\ [](/\ 0 <= parser.current
          /\ parser.current <= EofIndex
          /\ TokAt(parser.tokens, EofIndex).ty = "Eof"
          /\ Parser_peek(parser) # OOBToken
          /\ parser.current = EofIndex =>
                \A ty \in TokenType : ~Parser_check(parser, ty)
          /\ Parsed => \A i \in 1..Len(Flatten(presult.val)) :
                          Flatten(presult.val)[i] # "Eof")
    /\ [][CursorStep]_vars

\* synchronize has skipped two tokens at least and stands at the Eof
CursorWithinTokensWitness ==
    /\ ppc = "done"
    /\ ~presult.ok
    /\ parser.current = EofIndex
    /\ EofIndex >= 3
    /\ Parser_previous(parser).ty # "SemiColon"

\* position p is a statement boundary: the token before it is ';', or the
\* token at it starts a statement, or it is the Eof
Boundary(p) ==
    \/ TokAt(parser.tokens, p).ty = "Eof"
    \/ TokAt(parser.tokens, p - 1).ty = "SemiColon"
    \/ TokAt(parser.tokens, p).ty \in
          {"Class", "Fun", "Var", "For", "If", "While", "Print", "Return"}

Min(a, b) == IF a <= b THEN a ELSE b

\* one step of parse seen from its recovery: synchronize starts once, from the
\* failure at the cursor f, at min(f + 1, index of Eof); it moves on one token
\* at a time only from a position that is no boundary, returns at the first
\* boundary without moving, and parse returns the error expression returned
SynchronizeStep ==
    /\ ppc' = "synchronize" /\ ppc # "synchronize" =>
          /\ ppc = "run" /\ stack = <<>> /\ ~ret.ok
          /\ parser' = parser
          /\ ret' = ret
    /\ ppc = "synchronize" =>
          \/ ppc' = "fault"
          \/ /\ ppc' = "sync_loop"
             /\ parser'.current = Min(parser.current + 1, EofIndex)
             /\ ret' = ret
    /\ ppc = "sync_loop" =>
          IF Boundary(parser.current)
          THEN /\ ppc' = "done"
               /\ parser' = parser
               /\ presult' = ret
               /\ ~ret.ok
          ELSE /\ ppc' = "sync_loop"
               /\ parser'.current = parser.current + 1
               /\ ret' = ret
    /\ ppc = "done" => ppc' = "done"

\* C24: when parse returns Err after failing at token index f, synchronize
\* has run exactly once and the cursor rests at the smallest p >= min(f + 1,
\* index of Eof) such that token p - 1 is ';', or token p is one of class,
\* fun, var, for, if, while, print, return, or token p is the Eof; no token
\* at or after p is discarded and the error returned is the original one.
SynchronizeStopsAtBoundary ==
    /\ [][SynchronizeStep]_vars
    /\ []((ppc = "done" /\ ~presult.ok) => Boundary(parser.current) /\ presult = ret)

\* synchronize has skipped a token that is no boundary and stopped at var
SynchronizeWitness ==
    /\ ppc = "done"
    /\ ~presult.ok
    /\ Parser_peek(parser).ty = "Var"
    /\ parser.current = 2
    /\ Parser_previous(parser).ty # "SemiColon"
    /\ presult.err[Len(presult.err)] = ExpectExpression

\* C25 (as stated): every call of synchronize discards at least one token
\* before it looks for a boundary: after its first step the cursor is
\* strictly greater than at the point of failure, whether the failure was at
\* an ordinary token or at the Eof. (Stated of the calls that do not panic.)
SynchronizeAlwaysDiscards ==
    [][(ppc = "synchronize" /\ ppc' # "fault") => parser'.current > parser.current]_vars

\* C25 (amended): a call of synchronize that returns discards the failing
\* token when it is an ordinary token: the cursor is strictly greater than at
\* the point of failure from its first step on; when the failure is at the
\* Eof nothing is discarded and the cursor stays on the Eof.
SynchronizeDiscardsOrdinary ==
    /\ [][(ppc = "synchronize" /\ ppc' # "fault") =>
              IF Parser_peek(parser).ty = "Eof"
              THEN parser'.current = parser.current
              ELSE parser'.current = parser.current + 1]_vars
    /\ [][ppc = "sync_loop" => parser'.current >= parser.current]_vars
    /\ []((ppc = "done" /\ ~presult.ok) =>
              \/ parser.current >= 1 /\ Parser_previous(parser).ty # "Eof"
              \/ parser.current = EofIndex)

\* synchronize has returned after a failure at the first, ordinary token,
\* with the cursor past it and before the Eof
SynchronizeDiscardsWitness ==
    /\ ppc = "done"
    /\ ~presult.ok
    /\ parser.current = 1
    /\ EofIndex >= 2
    /\ TokAt(parser.tokens, 0).ty = "SemiColon"

\* the ten kinds of binary operators and the two of prefix operators, with
\* the BinaryOp and the UnaryOp they map to
BinaryOpOf ==
    { <<"Plus", "Plus">>, <<"Minus", "Minus">>, <<"Star", "Star">>, <<"Slash", "Slash">>,
      <<"EqualEqual", "EqualEqual">>, <<"BangEqual", "BangEqual">>,
      <<"Greater", "Greater">>, <<"GreaterEqual", "GreaterEqual">>,
      <<"Less", "Less">>, <<"LessEqual", "LessEqual">> }
UnaryOpOf == { <<"Bang", "Bang">>, <<"Minus", "Minus">> }

\* the operators that occur in a tree
RECURSIVE OpsOf(_)
OpsOf(e) ==
    CASE e.node = "Literal" -> {}
      [] e.node = "Grouping" -> OpsOf(e.inner)
      [] e.node = "Unary" -> {<<"Unary", e.op>>} \cup OpsOf(e.right)
      [] e.node = "Binary" -> {<<"Binary", e.op>>} \cup OpsOf(e.left) \cup OpsOf(e.right)

\* C26: parse_binary_op maps exactly the ten kinds Plus, Minus, Star, Slash,
\* EqualEqual, BangEqual, Greater, GreaterEqual, Less, LessEqual to the
\* BinaryOp of the same name and parse_unary_op exactly Bang and Minus to the
\* UnaryOp, every other kind giving Err("should be binaryOp") or
\* Err("should be unaryOp"); and no parse ever produces these two errors.
OperatorMapsTotal ==
    /\ Cardinality(BinaryOpOf) = 10
    /\ \A ty \in TokenType :
          LET token == Token(ty, <<>>, None, 1)
          IN  /\ parse_binary_op(token) =
                    IF \E m \in BinaryOpOf : m[1] = ty
                    THEN [ok |-> TRUE, val |-> (CHOOSE m \in BinaryOpOf : m[1] = ty)[2]]
                    ELSE [ok |-> FALSE, err |-> <<"should be binaryOp">>]
              /\ parse_unary_op(token) =
                    IF \E m \in UnaryOpOf : m[1] = ty
                    THEN [ok |-> TRUE, val |-> (CHOOSE m \in UnaryOpOf : m[1] = ty)[2]]
                    ELSE [ok |-> FALSE, err |-> <<"should be unaryOp">>]
    /\ DOMAIN ret = {"ok", "err"} =>
          ret.err \notin {<<"should be binaryOp">>, <<"should be unaryOp">>}
    /\ Parsed =>
          \A o \in OpsOf(presult.val) :
              IF o[1] = "Binary" THEN \E m \in BinaryOpOf : m[2] = o[2]
              ELSE \E m \in UnaryOpOf : m[2] = o[2]

\* a tree with Minus as a prefix operator and Minus as a binary operator
OperatorMapsWitness ==
    /\ Parsed
    /\ <<"Unary", "Minus">> \in OpsOf(presult.val)
    /\ <<"Binary", "Minus">> \in OpsOf(presult.val)
    /\ <<"Unary", "Bang">> \in OpsOf(presult.val)

-----------------------------------------------------------------------------
(* Termination of the scan.                                                *)

\* one step of the scan: a call of scan_token starts at a new, later start
\* before the end of the source and consumes a character at least; an
\* iteration of an inner loop consumes exactly one character, and the loop is
\* left at the end of the input at the latest
ScanProgressStep ==
    /\ scanner'.source = scanner.source
    /\ scanner'.current >= scanner.current
    /\ (pc = "loop" /\ pc' = "scan_token") =>
          /\ scanner'.start = scanner.current
          /\ scanner'.start < Len(Source)
          /\ scanner.current = 0 \/ scanner'.start > scanner.start
    /\ pc = "scan_token" =>
          /\ scanner.current = scanner.start
          /\ scanner'.current > scanner.current
          /\ scanner'.current <= Len(Source)
    /\ (pc \in {"comment", "string", "number", "number_frac", "identifier"}) =>
          \/ pc' \in {"comment", "string", "number", "number_frac", "identifier"}
                /\ scanner'.current = scanner.current + 1
                /\ scanner.current < Len(Source)
          \/ pc' \in {"loop", "done"} /\ scanner'.current <= scanner.current + 1

\* C27: every call of scan_token increases current, every iteration of an
\* inner loop advances current and the loops stop at the end of the input;
\* scan_tokens returns Ok or Err on every source, after at most len(source)
\* calls of scan_token (their starts are distinct indices of the source), and
\* an Ok result holds at most len(source) + 1 tokens.
ScanTerminates ==
    /\ [][ScanProgressStep]_vars
    /\ [](Len(scanner.tokens) <= scanner.current + (IF pc = "done" THEN 1 ELSE 0))
    /\ [](result.kind = "Ok" => Len(result.tokens) <= Len(Source) + 1)
    /\ <>(pc = "done" /\ result.kind \in {"Ok", "Err"})

\* an Ok result with one token for each character of a source and the Eof
ScanTerminatesWitness ==
    /\ pc = "done"
    /\ result.kind = "Ok"
    /\ Len(Source) >= 4
    /\ Len(result.tokens) = Len(Source) + 1

-----------------------------------------------------------------------------
(* Properties of run_prompt.                                               *)

\* C28: run_prompt stops only when the input ends (read_line delivers zero
\* bytes) or a read error occurs; every line read, whatever it holds (empty,
\* blank, a lexical error, a syntax error), is answered with its tokens and
\* a tree or with an error message and is followed by the next prompt, and
\* the end of the input makes the loop return: it neither continues nor
\* faults.
ReplAnswersEveryLine ==
    /\ [](repl.at # "panicked")
    /\ [][(repl.at = "prompt" /\ repl.stdin = <<>>) => repl'.at = "returned"]_vars
    /\ [][(repl.at = "prompt" /\ repl.stdin # <<>> /\ repl'.at # "returned") =>
              repl'.at = "scan" /\ scanner'.source = Head(repl.stdin)]_vars
    /\ [][(repl.at \in {"scan", "parse"} /\ repl'.at \notin {"scan", "parse"}) =>
              /\ repl'.at = "prompt"
              /\ Len(repl'.stdout) > Len(repl.stdout)]_vars

====
